---- MODULE Spec2Model ----
(***************************************************************************)
(* The V50 search of src/v50_solver.py (find_v50_for_config) driven by the *)
(* batch loop of src/main.py (main).                                       *)
(*                                                                         *)
(* Velocities are exact binary fractions of 1 m/s: a velocity v m/s is the *)
(* integer v * Scale.  Every halving (a bisection midpoint, a growth by    *)
(* 3/2) costs one experiment, so Scale = 2^MAX_TOTAL_RUNS keeps every      *)
(* velocity the search computes an integer, as the floats of the code keep *)
(* them exact.  Residual velocities are whole m/s.                         *)
(***************************************************************************)
EXTENDS Integers, Sequences, FiniteSets, TLC

\* ---------------------------------------------------------------- bounds
\* the search parameters of the batch (config.py sets none of them):
\* config.MAX_TOTAL_RUNS and config.MAX_BISECTION_ITERATIONS
SearchRuns == 6
SearchBisections == 2
MIN_DATAPOINTS_FOR_FIT == 3
VR_FILTER_THRESHOLD == 100
\* how many entries of THICKNESS_CONFIGS the batch processes
NumConfigs == 2

\* ------------------------------------------------------ program constants
\* INITIAL_VELOCITY as config.py sets it
ConfigInitialVelocity == 300
CONVERGENCE_TOLERANCE == 5
EXTRA_PENETRATION_SAMPLES == 3
\* LAMBERT_JONAS_BOUNDS['VBL'][1], the static upper bound of VBL
FitVblUpper == 800
INF == 2147483647

None == <<>>

RECURSIVE Pow2(_)
Pow2(n) == IF n = 0 THEN 1 ELSE 2 * Pow2(n - 1)


\* the settings the configuration may give <<GROWTH_FACTOR (num/den), EXPONENTIAL_STEP>>:
\* linear stepping by 2 and by 10 m/s, growth by 1.5
Configs == {<<<<1, 1>>, 2>>, <<<<1, 1>>, 10>>, <<<<3, 2>>, 10>>}

\* residual velocities the Observation Source may report for a penetration
VrValues == {0, 50, VR_FILTER_THRESHOLD + 1}

AllThickness == <<20, 25, 30, 35, 40>>
THICKNESS_CONFIGS == [k \in 1..NumConfigs |->
                        LET t == AllThickness[((k - 1) % 5) + 1] IN <<t, t, t, t>>]

VARIABLES
    pc,                 \* where the program is
    i,                  \* main: number of configurations already processed
    results_list,       \* main: the rows appended so far
    GROWTH_FACTOR,      \* config: <<num, den>>
    EXPONENTIAL_STEP,   \* config: m/s
    INITIAL_VELOCITY,   \* config: m/s
    MAX_TOTAL_RUNS,     \* config
    MAX_BISECTION_ITERATIONS,   \* config
    source,             \* the Observation Source: what its experiments may answer
    v_low, v_high, penetration_points, run_count,
    current_v, expansion_iter,
    samples_collected, up_v, down_v, tried, direction_toggle,
    bisection_iter,
    fit_outcome,        \* what curve_fit did: "none" until the fit is attempted
    vbl_upper_bound,    \* the upper bound of VBL handed to curve_fit, in 1/100 tick
    result,             \* the record find_v50_for_config returned
    lj,                 \* a call of lambert_jonas_func: its arguments and its value
    logger_handlers,    \* process-wide: the handlers attached to the module's logger,
                        \* each named by the config_index of the solve that made it
    file_handler,       \* the solve's own FileHandler: "none", "open" or "closed"
    trials              \* history: the experiments issued by the current solve

vars == <<pc, i, results_list, GROWTH_FACTOR, EXPONENTIAL_STEP, INITIAL_VELOCITY,
          MAX_TOTAL_RUNS, MAX_BISECTION_ITERATIONS, source, v_low, v_high,
          penetration_points, run_count, current_v, expansion_iter,
          samples_collected, up_v, down_v, tried, direction_toggle,
          bisection_iter, fit_outcome, vbl_upper_bound, result, lj,
          logger_handlers, file_handler, trials>>

cfgVars == <<GROWTH_FACTOR, EXPONENTIAL_STEP, INITIAL_VELOCITY, MAX_TOTAL_RUNS,
            MAX_BISECTION_ITERATIONS, source>>
mainVars == <<i, results_list>>
sampleVars == <<samples_collected, up_v, down_v, tried, direction_toggle>>
fitVars == <<fit_outcome, vbl_upper_bound>>
logVars == <<logger_handlers, file_handler>>

NoResult == [status |-> "none"]

Scale == Pow2(MAX_TOTAL_RUNS)

\* a run of the program: the configuration it reads and the Observation Source
\* it talks to
Setting(init_v, growth, step, runs, iters, fails, vrs) ==
    [INITIAL_VELOCITY |-> init_v, GROWTH_FACTOR |-> growth,
     EXPONENTIAL_STEP |-> step, MAX_TOTAL_RUNS |-> runs,
     MAX_BISECTION_ITERATIONS |-> iters,
     source |-> [may_fail |-> fails, vrs |-> vrs, threshold |-> 0,
                 lsdyna |-> "none"]]

\* the batch under every setting of Configs, with a source that may answer
\* anything, fail or raise
SearchSettings ==
    {Setting(ConfigInitialVelocity, c[1], c[2], SearchRuns, SearchBisections,
             TRUE, VrValues) : c \in Configs}

\* growth by 1.5 from 300 m/s with a source that always runs and reports a
\* residual velocity of 50 m/s for every penetration
GrowthSetting ==
    Setting(ConfigInitialVelocity, <<3, 2>>, 10, SearchRuns, SearchBisections,
            FALSE, {50})

\* linear stepping by 100 from 900 m/s, bracket [900, 1000], with ceilings
\* that do not bind before the tolerance is met
BisectionSetting == Setting(900, <<1, 1>>, 100, 10, 6, FALSE, {50})

\* growth by 1.5 from 300 m/s with a sampling step of 75 m/s and a source that
\* may report 50 or 60 m/s for the same velocity
ResampleSetting ==
    Setting(ConfigInitialVelocity, <<3, 2>>, 375, SearchRuns, SearchBisections,
            FALSE, {50, 60})

\* linear stepping by 10 from 300 m/s with a source that always runs and
\* penetrates exactly at the velocities from a threshold T (m/s) on
ThresholdValues == {300, 305, 318}
ThresholdSettings ==
    {[Setting(ConfigInitialVelocity, <<1, 1>>, 10, SearchRuns, SearchBisections,
              FALSE, {50}) EXCEPT !.source.threshold = T] : T \in ThresholdValues}

\* what a run of LS-DYNA started by run_simulation may come to:
\* lsdyna_runner.py 144-151, 186-196, 204-222, 223-232, 234-240
LsDynaRuns ==
    {"lsdyna_not_found", "timeout", "incomplete_output", "exit_code",
     "exception", "ok"}

\* linear stepping by 10 from 300 m/s with the modules lsdyna_runner and
\* result_parser of the repository behind every experiment, and an LS-DYNA
\* whose runs all come to the same end
RunnerSettings ==
    {[Setting(ConfigInitialVelocity, <<1, 1>>, 10, SearchRuns, SearchBisections,
              FALSE, {50}) EXCEPT !.source.lsdyna = e] : e \in LsDynaRuns}

Settings ==
    SearchSettings \cup {GrowthSetting, BisectionSetting, ResampleSetting}
    \cup ThresholdSettings \cup RunnerSettings

\* ------------------------------------------------- the Observation Source
\* what one experiment hands back to the solver: sim_success, then
\* (is_penetrated, vr) when the simulation ran
\* the velocity written into the input deck of the experiment about to run:
\* current_v, sample_v (down_v or up_v) or mid_v
TestedVelocity ==
    IF pc = "expanding" THEN current_v
    ELSE IF pc = "sampling"
    THEN IF direction_toggle % 2 = 0 THEN down_v ELSE up_v
    ELSE (v_low + v_high) \div 2

\* the functions the module lsdyna_runner defines
lsdyna_runner_attrs ==
    {"prepare_k_files", "process_parametric_content", "process_thickness_parameters",
     "run_simulation", "check_output_files", "clean_run_directory"}

\* lsdyna_runner.py 129-240: the dict run_simulation returns
run_simulation(run) ==
    IF run = "ok"
    THEN [success |-> TRUE, duration |-> "elapsed_time", return_code |-> 0,
          output_files |-> "files"]
    ELSE IF run = "incomplete_output"
    THEN [success |-> FALSE, reason |-> run, duration |-> "elapsed_time",
          missing_files |-> "missing"]
    ELSE IF run = "exit_code"
    THEN [success |-> FALSE, reason |-> run, duration |-> "elapsed_time",
          stderr |-> "stderr"]
    ELSE IF run = "timeout"
    THEN [success |-> FALSE, reason |-> run, duration |-> "elapsed_time"]
    ELSE [success |-> FALSE, reason |-> run, duration |-> 0]

\* the keys of the dicts get_residual_velocity returns: result_parser.py 54,
\* 124, 186, 205, 214, 307, 315, 324
ResidualVelocityKeys ==
    {{"success", "reason", "residual_velocity", "is_penetration"},
     {"success", "residual_velocity", "max_residual_velocity", "is_penetration",
      "node_count", "velocity_data", "source"},
     {"success", "residual_velocity", "is_penetration", "node_count", "source"}}

\* the truth value Python gives a dict: false for the empty dict only
Truthy(d) == DOMAIN d # {}

\* v50_solver.py 78-92, 143-154, 199-211 with the modules of the repository
\* behind them: how an experiment ends when LS-DYNA's run comes to `run`.
\* Line 78 calls lsdyna_runner.prepare_k_file, line 79 tests the dict of
\* run_simulation for truth, line 92 unpacks a dict into two names
ExperimentOnRunner(run) ==
    IF "prepare_k_file" \notin lsdyna_runner_attrs THEN "Raised"
    ELSE IF ~Truthy(run_simulation(run)) THEN "ExperimentFailed"
    ELSE IF \A keys \in ResidualVelocityKeys : Cardinality(keys) # 2 THEN "Raised"
    ELSE "Verdict"

\* (a source with a threshold answers by the velocity under test; threshold 0
\* stands for a source without one; lsdyna "none" stands for a source that
\* answers as the solver expects, by a truth value and a pair)
Outcomes ==
    IF source.lsdyna # "none"
    THEN IF ExperimentOnRunner(source.lsdyna) = "ExperimentFailed"
         THEN {[sim_success |-> FALSE, is_penetrated |-> FALSE, vr |-> 0]}
         ELSE {}
    ELSE IF source.threshold > 0
    THEN IF TestedVelocity >= source.threshold * Scale
         THEN {[sim_success |-> TRUE, is_penetrated |-> TRUE, vr |-> r] :
                  r \in source.vrs}
         ELSE {[sim_success |-> TRUE, is_penetrated |-> FALSE, vr |-> 0]}
    ELSE (IF source.may_fail
          THEN {[sim_success |-> FALSE, is_penetrated |-> FALSE, vr |-> 0]} ELSE {})
         \cup {[sim_success |-> TRUE, is_penetrated |-> FALSE, vr |-> 0]}
         \cup {[sim_success |-> TRUE, is_penetrated |-> TRUE, vr |-> r] :
                   r \in source.vrs}

OutcomeName(o) ==
    IF ~o.sim_success THEN "ExperimentFailed"
    ELSE IF o.is_penetrated THEN "Penetrated" ELSE "NotPenetrated"

\* one entry of the history of experiments: the velocity tested and the verdict
Trial(v, o) == [v |-> v, out |-> OutcomeName(o)]

\* ------------------------------------------------------------- helpers
\* lines 97, 103, 156, 216, 231
\* variant: a residual velocity of zero is accepted
VrValid_noLower(vr) == vr <= VR_FILTER_THRESHOLD
VrValid(vr) == 0 < vr /\ vr <= VR_FILTER_THRESHOLD

RECURSIVE FilterValid(_)
FilterValid(pts) ==
    IF pts = <<>> THEN <<>>
    ELSE IF VrValid(Head(pts)[2]) THEN <<Head(pts)>> \o FilterValid(Tail(pts))
    ELSE FilterValid(Tail(pts))

PointLess(p, q) == p[1] < q[1] \/ (p[1] = q[1] /\ p[2] < q[2])

RECURSIVE SortedSeq(_)
SortedSeq(S) ==
    IF S = {} THEN <<>>
    ELSE LET m == CHOOSE p \in S : \A q \in S \ {p} : PointLess(p, q)
         IN <<m>> \o SortedSeq(S \ {m})

\* sorted(list(set(penetration_points)))
DedupSorted(pts) == SortedSeq({pts[k] : k \in 1..Len(pts)})

\* round(v, 6) of a velocity on the grid: <<whole m/s, millionths>>, ties to even
Round6(v) ==
    LET whole == v \div Scale
        num == (v % Scale) * 1000000
        q == num \div Scale
        r == num % Scale
        up == (2 * r > Scale) \/ (2 * r = Scale /\ q % 2 = 1)
        micro == IF up THEN q + 1 ELSE q
    IN IF micro = 1000000 THEN <<whole + 1, 0>> ELSE <<whole, micro>>

Min(a, b) == IF a <= b THEN a ELSE b

multiplier == IF GROWTH_FACTOR[1] > GROWTH_FACTOR[2] THEN GROWTH_FACTOR ELSE None

\* variant: the increment is a fifth of the step, however small
sample_step_fifth == (EXPONENTIAL_STEP * Scale) \div 5
\* max(1.0, EXPONENTIAL_STEP / 5.0)
sample_step ==
    IF EXPONENTIAL_STEP <= 5 THEN Scale ELSE (EXPONENTIAL_STEP * Scale) \div 5

\* --------------------------------------------------------- main: the batch
\* the columns of a row this model keeps: config_index, t1..t4 and status
\* (the other columns are the fields of result, copied unchanged)
Row(idx, res) ==
    [config_index |-> idx,
     t1 |-> THICKNESS_CONFIGS[idx][1], t2 |-> THICKNESS_CONFIGS[idx][2],
     t3 |-> THICKNESS_CONFIGS[idx][3], t4 |-> THICKNESS_CONFIGS[idx][4],
     status |-> res.status]

CriticalRow(idx) == Row(idx, [status |-> "critical_failure"])

\* variant: the except branch records nothing
ExceptResults_dropped(idx) == results_list
\* the except branch of main: the row is appended there too
ExceptResults(idx) == Append(results_list, CriticalRow(idx))

\* v50_solver.py 52-53: the handlers of the module's logger are cleared
\* variant: the handlers left by earlier solves stay attached
ClearHandlers_kept(hs) == hs
ClearHandlers(hs) == {}
\* line 54: the solve's handler is attached
AddHandler(hs, idx) == hs \cup {idx}
\* lines 309-312: the finally clause of the fit detaches the solve's handler
RemoveHandler(hs, idx) == hs \ {idx}

\* the locals of find_v50_for_config while no solve is running
FrameIdle ==
    /\ v_low = 0 /\ v_high = INF /\ penetration_points = <<>> /\ run_count = 0
    /\ current_v = 0 /\ expansion_iter = 0
    /\ samples_collected = 0 /\ up_v = 0 /\ down_v = 0 /\ tried = {}
    /\ direction_toggle = 0 /\ bisection_iter = 0
    /\ fit_outcome = "none" /\ vbl_upper_bound = 0
    /\ file_handler = "none"
    /\ result = NoResult /\ trials = <<>>

\* the frame of find_v50_for_config is dropped when the call is over
FrameDrop ==
    /\ v_low' = 0 /\ v_high' = INF /\ penetration_points' = <<>> /\ run_count' = 0
    /\ current_v' = 0 /\ expansion_iter' = 0
    /\ samples_collected' = 0 /\ up_v' = 0 /\ down_v' = 0 /\ tried' = {}
    /\ direction_toggle' = 0 /\ bisection_iter' = 0
    /\ fit_outcome' = "none" /\ vbl_upper_bound' = 0
    /\ file_handler' = "none"
    /\ result' = NoResult /\ trials' = <<>>

Init ==
    /\ pc = "main" /\ i = 0 /\ results_list = <<>>
    /\ lj = None /\ logger_handlers = {}
    /\ \E s \in Settings :
          /\ GROWTH_FACTOR = s.GROWTH_FACTOR
          /\ EXPONENTIAL_STEP = s.EXPONENTIAL_STEP
          /\ INITIAL_VELOCITY = s.INITIAL_VELOCITY
          /\ MAX_TOTAL_RUNS = s.MAX_TOTAL_RUNS
          /\ MAX_BISECTION_ITERATIONS = s.MAX_BISECTION_ITERATIONS
          /\ source = s.source
    /\ FrameIdle

\* main.py 57-62 and v50_solver.py 59-71: the next configuration's solve starts
CallSolve ==
    /\ pc = "main" /\ i < NumConfigs
    /\ pc' = "expanding"
    /\ v_low' = 0 /\ v_high' = INF /\ penetration_points' = <<>> /\ run_count' = 0
    /\ current_v' = INITIAL_VELOCITY * Scale
    /\ expansion_iter' = 0
    /\ logger_handlers' = AddHandler(ClearHandlers(logger_handlers), i + 1)
    /\ file_handler' = "open"
    /\ UNCHANGED <<lj, cfgVars, mainVars, sampleVars, bisection_iter, fitVars,
                   result, trials>>

\* main.py 62-75, 88-97: the solve returned; its row is appended and saved
MainRecord ==
    /\ pc = "returned"
    /\ results_list' = Append(results_list, Row(i + 1, result))
    /\ i' = i + 1
    /\ pc' = "main"
    /\ FrameDrop
    /\ UNCHANGED <<lj, logger_handlers, cfgVars>>

\* main.py 77-97: the solve raised; a row is appended for it all the same
MainExcept ==
    /\ pc = "raised"
    /\ results_list' = ExceptResults(i + 1)
    /\ i' = i + 1
    /\ pc' = "main"
    /\ FrameDrop
    /\ UNCHANGED <<lj, logger_handlers, cfgVars>>

\* main.py 99-107: the loop over THICKNESS_CONFIGS is over
MainDone ==
    /\ pc = "main" /\ i = NumConfigs
    /\ pc' = "main_done"
    /\ UNCHANGED <<lj, logVars, cfgVars, mainVars, v_low, v_high, penetration_points, run_count,
                   current_v, expansion_iter, sampleVars, bisection_iter,
                   fitVars, result, trials>>

\* ------------------------------------------------------ phase 1: expansion
\* variant: the loop stops one run early
ExpansionLoopCond_short == run_count < MAX_TOTAL_RUNS - 1
ExpansionLoopCond == run_count < MAX_TOTAL_RUNS

\* line 84: only a failure of the very first run of the solve is retried
\* variant: every failure is retried
RetryAlways(rc) == TRUE
RetryAfterFailure(rc) == rc = 1

\* lines 175-178
\* variant: the growth factor is never applied
NextVelocity_linear(v, iter) == v + EXPONENTIAL_STEP * Scale
\* variant: the first step of a solve is linear, growth starts with the second
NextVelocity_firstLinear(v, iter) ==
    IF multiplier # None /\ iter > 1
    THEN (v * multiplier[1]) \div multiplier[2]
    ELSE v + EXPONENTIAL_STEP * Scale
NextVelocity(v, iter) ==
    IF multiplier # None /\ iter > 0
    THEN (v * multiplier[1]) \div multiplier[2]
    ELSE v + EXPONENTIAL_STEP * Scale

\* variant: the no-penetration record has a status of its own
NoPenetrationResult_status(rc) ==
    [status |-> "no_penetration",
     reason |-> "No penetration found in exponential search",
     runs |-> rc]
\* line 182
NoPenetrationResult(rc) ==
    [status |-> "failed",
     reason |-> "No penetration found in exponential search",
     runs |-> rc]

\* lines 72-89: the simulation failed
ExpandFailed ==
    /\ pc = "expanding" /\ ExpansionLoopCond
    /\ \E o \in Outcomes :
        /\ ~o.sim_success
        /\ trials' = Append(trials, Trial(current_v, o))
    /\ expansion_iter' = expansion_iter + 1
    /\ run_count' = run_count + 1
    /\ IF RetryAfterFailure(run_count')
       THEN /\ current_v' = current_v + EXPONENTIAL_STEP * Scale
            /\ UNCHANGED <<pc, result>>
       ELSE \* break, then line 180: v_high is still inf
            /\ pc' = "returned"
            /\ result' = NoPenetrationResult(run_count')
            /\ UNCHANGED current_v
    /\ UNCHANGED <<lj, logVars, cfgVars, mainVars, v_low, v_high, penetration_points,
                   sampleVars, bisection_iter, fitVars>>

\* lines 72-79, 91-93, 171-178: no penetration at current_v
ExpandNotPenetrated ==
    /\ pc = "expanding" /\ ExpansionLoopCond
    /\ \E o \in Outcomes :
        /\ o.sim_success /\ ~o.is_penetrated
        /\ trials' = Append(trials, Trial(current_v, o))
    /\ expansion_iter' = expansion_iter + 1
    /\ run_count' = run_count + 1
    /\ v_low' = current_v
    /\ current_v' = NextVelocity(current_v, expansion_iter')
    /\ UNCHANGED <<lj, logVars, cfgVars, mainVars, pc, v_high, penetration_points,
                   sampleVars, bisection_iter, fitVars, result>>

\* lines 72-79, 91-112: the first penetration; the sampling loop is set up
ExpandPenetrated ==
    /\ pc = "expanding" /\ ExpansionLoopCond
    /\ \E o \in Outcomes :
        /\ o.sim_success /\ o.is_penetrated
        /\ trials' = Append(trials, Trial(current_v, o))
        /\ penetration_points' =
              IF VrValid(o.vr) THEN Append(penetration_points, <<current_v, o.vr>>)
              ELSE penetration_points
    /\ expansion_iter' = expansion_iter + 1
    /\ run_count' = run_count + 1
    /\ v_high' = current_v
    /\ samples_collected' = Len(FilterValid(penetration_points'))
    /\ up_v' = v_high' + sample_step
    /\ down_v' = v_high' - sample_step
    /\ tried' = {Round6(v_high')}
    /\ direction_toggle' = 0
    /\ pc' = "sampling"
    /\ UNCHANGED <<lj, logVars, cfgVars, mainVars, v_low, current_v, bisection_iter,
                   fitVars, result>>

\* lines 72, 180-182: the run ceiling ended the expansion without a penetration
ExpandExhausted ==
    /\ pc = "expanding" /\ ~ExpansionLoopCond
    /\ pc' = "returned"
    /\ result' = NoPenetrationResult(run_count)
    /\ UNCHANGED <<lj, logVars, cfgVars, mainVars, v_low, v_high, penetration_points, run_count,
                   current_v, expansion_iter, sampleVars, bisection_iter,
                   fitVars, trials>>

\* ------------------------------------------------------- phase 1b: sampling
\* line 113
\* variant: the sampling loop does not test the run ceiling
SamplingLoopCond_noCeiling == samples_collected < EXTRA_PENETRATION_SAMPLES
SamplingLoopCond ==
    samples_collected < EXTRA_PENETRATION_SAMPLES /\ run_count < MAX_TOTAL_RUNS

\* lines 115-120: only the parity of direction_toggle is read
direction == IF direction_toggle % 2 = 0 THEN "down" ELSE "up"
sample_v == IF direction = "down" THEN down_v ELSE up_v

\* direction_toggle is kept modulo 4: its parity is all the code reads, and the
\* two increments of a rejected downward candidate stay a visible step
Toggle(n) == (direction_toggle + n) % 4

\* line 125
\* variant: a candidate equal to v_low is let through
DownRejected_strict == direction = "down" /\ sample_v < v_low
DownRejected == direction = "down" /\ sample_v <= v_low

\* lines 134-137, 149-152, 164-167: the sampled direction moves one step on
Advance ==
    IF direction = "down"
    THEN down_v' = down_v - sample_step /\ UNCHANGED up_v
    ELSE up_v' = up_v + sample_step /\ UNCHANGED down_v

\* lines 113-138: an iteration that issues no experiment (both `continue`s)
SampleNoRun ==
    /\ pc = "sampling" /\ SamplingLoopCond
    /\ \/ /\ DownRejected
          /\ direction_toggle' = Toggle(2)
          /\ UNCHANGED <<up_v, down_v>>
       \/ /\ ~DownRejected /\ Round6(sample_v) \in tried
          /\ direction_toggle' = Toggle(1)
          /\ Advance
    /\ UNCHANGED <<lj, logVars, cfgVars, mainVars, pc, v_low, v_high, penetration_points,
                   run_count, current_v, expansion_iter, samples_collected, tried,
                   bisection_iter, fitVars, result, trials>>

\* lines 113-167: an iteration that issues the experiment at sample_v
SampleRun ==
    /\ pc = "sampling" /\ SamplingLoopCond
    /\ ~DownRejected /\ Round6(sample_v) \notin tried
    /\ direction_toggle' = Toggle(1)
    /\ tried' = tried \cup {Round6(sample_v)}
    /\ run_count' = run_count + 1
    /\ \E o \in Outcomes :
        /\ trials' = Append(trials, Trial(sample_v, o))
        /\ IF o.sim_success /\ o.is_penetrated /\ VrValid(o.vr)
           THEN /\ penetration_points' = Append(penetration_points, <<sample_v, o.vr>>)
                /\ samples_collected' = samples_collected + 1
           ELSE UNCHANGED <<penetration_points, samples_collected>>
    /\ Advance
    /\ UNCHANGED <<lj, logVars, cfgVars, mainVars, pc, v_low, v_high, current_v, expansion_iter,
                   bisection_iter, fitVars, result>>

\* line 170: the `break` after the sampling loop leaves the expansion loop
\* variant: without it the expansion loop goes on
AfterSampling_noBreak == "expanding"
AfterSampling == "bisecting"

\* lines 113, 170, 180, 185-186: sampling is over, v_high is finite: bisection
SampleExit ==
    /\ pc = "sampling" /\ ~SamplingLoopCond
    /\ pc' = AfterSampling
    /\ bisection_iter' = 0
    /\ UNCHANGED <<lj, logVars, cfgVars, mainVars, v_low, v_high, penetration_points, run_count,
                   current_v, expansion_iter, sampleVars, fitVars, result,
                   trials>>

\* ------------------------------------------------------ phase 2: bisection
\* line 187
\* variant: the iteration cap is not tested
BisectionLoopCond_noIterCap == run_count < MAX_TOTAL_RUNS
BisectionLoopCond ==
    bisection_iter < MAX_BISECTION_ITERATIONS /\ run_count < MAX_TOTAL_RUNS

\* line 188
\* variant: the bracket is compared with half the tolerance
Converged_half == 2 * (v_high - v_low) < CONVERGENCE_TOLERANCE * Scale
Converged == (v_high - v_low) < CONVERGENCE_TOLERANCE * Scale

\* line 196
mid_v == (v_low + v_high) \div 2

\* lines 202-220: the bracket <<v_low, v_high>> after the trial at mid
\* variant: the two verdicts move the wrong ends
BisectBracket_swapped(o, mid) ==
    IF ~o.sim_success
    THEN IF 2 * mid > v_low + v_high THEN <<v_low, mid>> ELSE <<mid, v_high>>
    ELSE IF o.is_penetrated THEN <<mid, v_high>> ELSE <<v_low, mid>>
\* variant: a trial that does not penetrate leaves the bracket as it is
BisectBracket_keepLow(o, mid) ==
    IF ~o.sim_success
    THEN IF 2 * mid > v_low + v_high THEN <<v_low, mid>> ELSE <<mid, v_high>>
    ELSE IF o.is_penetrated THEN <<v_low, mid>> ELSE <<v_low, v_high>>
\* variant: a failed trial always lowers the upper end
BisectBracket_failHigh(o, mid) ==
    IF ~o.sim_success THEN <<v_low, mid>>
    ELSE IF o.is_penetrated THEN <<v_low, mid>> ELSE <<mid, v_high>>
BisectBracket(o, mid) ==
    IF ~o.sim_success
    THEN IF 2 * mid > v_low + v_high THEN <<v_low, mid>> ELSE <<mid, v_high>>
    ELSE IF o.is_penetrated THEN <<v_low, mid>> ELSE <<mid, v_high>>

\* lines 187-220: one bisection trial
BisectRun ==
    /\ pc = "bisecting" /\ BisectionLoopCond /\ ~Converged
    /\ bisection_iter' = bisection_iter + 1
    /\ run_count' = run_count + 1
    /\ \E o \in Outcomes :
        /\ trials' = Append(trials, Trial(mid_v, o))
        /\ v_low' = BisectBracket(o, mid_v)[1]
        /\ v_high' = BisectBracket(o, mid_v)[2]
        /\ penetration_points' =
              IF o.sim_success /\ o.is_penetrated /\ VrValid(o.vr)
              THEN Append(penetration_points, <<mid_v, o.vr>>)
              ELSE penetration_points
    /\ UNCHANGED <<lj, logVars, cfgVars, mainVars, pc, current_v, expansion_iter, sampleVars,
                   fitVars, result>>

\* lines 187-190, 222: the loop ends, converged or out of iterations or runs
BisectExit ==
    /\ pc = "bisecting" /\ (~BisectionLoopCond \/ Converged)
    /\ pc' = "fitting"
    /\ UNCHANGED <<lj, logVars, cfgVars, mainVars, v_low, v_high, penetration_points, run_count,
                   current_v, expansion_iter, sampleVars, bisection_iter,
                   fitVars, result, trials>>

\* ------------------------------------------------------------ phase 3: fit
\* line 234
\* variant: the minimum is tested one too low
TooFewPoints_offByOne(n) == n < MIN_DATAPOINTS_FOR_FIT - 1
TooFewPoints(n) == n < MIN_DATAPOINTS_FOR_FIT

\* lines 236-243, 291-298, 301-308
FailedResult(reason, pts) ==
    [status |-> "failed", reason |-> reason, v_low |-> v_low, v_high |-> v_high,
     runs |-> run_count, points_used |-> pts]

\* lines 266-287; the fitted numbers themselves are not modelled
SuccessResult(pts) ==
    [status |-> "success", V50 |-> "VBL", param_a |-> "a", param_p |-> "p",
     rmse |-> "rmse", v_low |-> v_low, v_high |-> v_high, runs |-> run_count,
     points_used |-> pts]

\* what curve_fit may do: return popt, raise RuntimeError (no convergence), or
\* raise another exception (ValueError, ...)
FitOutcomes == {"converged", "RuntimeError", "Exception"}

\* lines 256-308: <<where control goes, the record returned>>
\* variant: only RuntimeError is caught
FitExit_unhandled(outcome, pts) ==
    IF outcome = "converged" THEN <<"returned", SuccessResult(pts)>>
    ELSE IF outcome = "RuntimeError"
    THEN <<"returned", FailedResult("Curve fitting failed", pts)>>
    ELSE <<"raised", NoResult>>
FitExit(outcome, pts) ==
    IF outcome = "converged" THEN <<"returned", SuccessResult(pts)>>
    ELSE IF outcome = "RuntimeError"
    THEN <<"returned", FailedResult("Curve fitting failed", pts)>>
    ELSE <<"returned", FailedResult("str(e)", pts)>>

\* the smallest and the largest impact velocity of a non-empty point list
MinVi(pts) == CHOOSE v \in {pts[k][1] : k \in 1..Len(pts)} :
                \A k \in 1..Len(pts) : v <= pts[k][1]
MaxVi(pts) == CHOOSE v \in {pts[k][1] : k \in 1..Len(pts)} :
                \A k \in 1..Len(pts) : v >= pts[k][1]

\* line 250: min(FIT_BOUNDS['VBL'][1], Vi_data.min() * 0.99), in hundredths of
\* a tick so that the factor 0.99 stays exact
\* variant: the largest impact velocity is taken
VblUpperBound_max(pts) == Min(FitVblUpper * Scale * 100, MaxVi(pts) * 99)
VblUpperBound(pts) == Min(FitVblUpper * Scale * 100, MinVi(pts) * 99)

\* lines 228-243: too few points are left after the filter
FitInsufficient ==
    /\ pc = "fitting"
    /\ penetration_points' = DedupSorted(penetration_points)
    /\ TooFewPoints(Len(FilterValid(penetration_points')))
    /\ result' = FailedResult("Not enough data points for fitting", penetration_points')
    /\ pc' = "returned"
    /\ UNCHANGED <<lj, logVars, cfgVars, mainVars, v_low, v_high, run_count, current_v,
                   expansion_iter, sampleVars, bisection_iter, fitVars, trials>>

\* lines 228-308: the fit is attempted
FitAttempt ==
    /\ pc = "fitting"
    /\ penetration_points' = DedupSorted(penetration_points)
    /\ ~TooFewPoints(Len(FilterValid(penetration_points')))
    /\ vbl_upper_bound' = VblUpperBound(FilterValid(penetration_points'))
    /\ \E outcome \in FitOutcomes :
        /\ fit_outcome' = outcome
        /\ pc' = FitExit(outcome, penetration_points')[1]
        /\ result' = FitExit(outcome, penetration_points')[2]
    /\ logger_handlers' = RemoveHandler(logger_handlers, i + 1)
    /\ file_handler' = "closed"
    /\ UNCHANGED <<lj, cfgVars, mainVars, v_low, v_high, run_count, current_v,
                   expansion_iter, sampleVars, bisection_iter, trials>>

\* ------------------------------------------------- an experiment that raises
\* lines 78-92, 144-155, 199-211: the calls into lsdyna_runner and
\* result_parser are not guarded; an exception in one leaves the solve
ExperimentRaises ==
    /\ \/ source.may_fail
       \/ source.lsdyna # "none" /\ ExperimentOnRunner(source.lsdyna) = "Raised"
    /\ \/ pc = "expanding" /\ ExpansionLoopCond
       \/ pc = "sampling" /\ SamplingLoopCond /\ ~DownRejected
            /\ Round6(sample_v) \notin tried
       \/ pc = "bisecting" /\ BisectionLoopCond /\ ~Converged
    /\ run_count' = run_count + 1
    /\ trials' = Append(trials,
                        [v |-> IF pc = "expanding" THEN current_v
                               ELSE IF pc = "sampling" THEN sample_v ELSE mid_v,
                         out |-> "Raised"])
    /\ bisection_iter' = IF pc = "bisecting" THEN bisection_iter + 1 ELSE bisection_iter
    /\ pc' = "raised"
    /\ UNCHANGED <<lj, logVars, cfgVars, mainVars, v_low, v_high, penetration_points, current_v,
                   expansion_iter, sampleVars, fitVars, result>>

Next ==
    \/ CallSolve \/ MainRecord \/ MainExcept \/ MainDone
    \/ ExpandFailed \/ ExpandNotPenetrated \/ ExpandPenetrated \/ ExpandExhausted
    \/ SampleNoRun \/ SampleRun \/ SampleExit
    \/ BisectRun \/ BisectExit
    \/ FitInsufficient \/ FitAttempt
    \/ ExperimentRaises

Spec == Init /\ [][Next]_vars

\* the program runs on while a step is possible
FairSpec == Spec /\ WF_vars(Next)

\* ------------------------------------------- lambert_jonas_func on its own
\* the arguments of a call: impact velocities 0..LJMaxV m/s (an array of two),
\* a in halves 1/2..LJMaxA2/2, p in 1..LJMaxP and VBL in 1..LJMaxV m/s
LJMaxV == 4
LJMaxA2 == 3
LJMaxP == 3

RECURSIVE Power(_, _)
Power(b, n) == IF n = 0 THEN 1 ELSE b * Power(b, n - 1)

\* what a negative base raised to 1/p gives in an array: not a number
NaN == -1

\* a * term ** (1 / p): a value r >= 0 is kept as (2 * r) ^ p, which is exact
\* and grows with r
ScaledRoot(term, a2, p) == IF term < 0 THEN NaN ELSE Power(a2, p) * term

\* v50_solver.py 24-27, one element of the array
\* variant: the value is not clamped by np.where
lambert_jonas_unclamped(Vi, a2, p, VBL) ==
    ScaledRoot(Power(Vi, p) - Power(VBL, p), a2, p)
lambert_jonas_elem(Vi, a2, p, VBL) ==
    LET term == Power(Vi, p) - Power(VBL, p)
    IN IF term > 0 THEN ScaledRoot(term, a2, p) ELSE 0

lambert_jonas_func(Vi, a2, p, VBL) ==
    [k \in 1..Len(Vi) |-> lambert_jonas_elem(Vi[k], a2, p, VBL)]

LJInit ==
    /\ pc = "lambert_jonas" /\ i = 0 /\ results_list = <<>>
    /\ logger_handlers = {}
    /\ GROWTH_FACTOR = GrowthSetting.GROWTH_FACTOR
    /\ EXPONENTIAL_STEP = GrowthSetting.EXPONENTIAL_STEP
    /\ INITIAL_VELOCITY = GrowthSetting.INITIAL_VELOCITY
    /\ MAX_TOTAL_RUNS = GrowthSetting.MAX_TOTAL_RUNS
    /\ MAX_BISECTION_ITERATIONS = GrowthSetting.MAX_BISECTION_ITERATIONS
    /\ source = GrowthSetting.source
    /\ FrameIdle
    /\ \E v1, v2 \in 0..LJMaxV, a2 \in 1..LJMaxA2, p \in 1..LJMaxP, VBL \in 1..LJMaxV :
          lj = [Vi |-> <<v1, v2>>, a2 |-> a2, p |-> p, VBL |-> VBL, out |-> None]

\* the function is called on the arguments
LJCall ==
    /\ pc = "lambert_jonas" /\ lj.out = None
    /\ lj' = [lj EXCEPT !.out = lambert_jonas_func(lj.Vi, lj.a2, lj.p, lj.VBL)]
    /\ UNCHANGED <<pc, logVars, cfgVars, mainVars, v_low, v_high, penetration_points,
                   run_count, current_v, expansion_iter, sampleVars,
                   bisection_iter, fitVars, result, trials>>

LJNext == LJCall

LJSpec == LJInit /\ [][LJNext]_vars

\* ------------------------------------------------------------ properties
SolvePcs == {"expanding", "sampling", "bisecting", "fitting", "returned"}

SeenPenetration == \E k \in 1..Len(trials) : trials[k].out = "Penetrated"

AllTrials(out) == \A k \in 1..Len(trials) : trials[k].out = out

FailedFields == {"reason", "v_low", "v_high", "runs", "points_used"}

NoPenetrationReason == "No penetration found in exponential search"

\* an experiment is issued by this step, and its verdict
Issued == Len(trials') = Len(trials) + 1
LastOut == trials'[Len(trials')].out

\* C1: in every reachable state of a solve the number of experiments issued
\* (run_count, and the length of the history) is at most MAX_TOTAL_RUNS
C1_RunCeiling ==
    run_count <= MAX_TOTAL_RUNS /\ Len(trials) <= MAX_TOTAL_RUNS

\* the ceiling stops a sampling loop that is still short of its target
C1_Witness ==
    /\ pc = "sampling" /\ run_count = MAX_TOTAL_RUNS
    /\ samples_collected < EXTRA_PENETRATION_SAMPLES

\* C2: every solve that starts ends: it returns a record (or an experiment
\* raised), whatever the outcomes are
C2_SolveTerminates ==
    (pc = "expanding") ~> (pc \in {"returned", "raised"})

\* C3: after the first penetration v_low < v_high; a NotPenetrated outcome
\* leaves v_high alone and never lowers v_low, a Penetrated outcome leaves
\* v_low alone and never raises v_high; no step of a solve widens the bracket
BracketOrdered == (pc \in SolvePcs /\ SeenPenetration) => v_low < v_high

BracketStep ==
    /\ (Issued /\ LastOut = "NotPenetrated") => (v_high' = v_high /\ v_low' >= v_low)
    /\ (Issued /\ LastOut = "Penetrated") => (v_low' = v_low /\ v_high' <= v_high)
    /\ (pc \in SolvePcs /\ pc' \in SolvePcs)
          => (v_high' - v_low' <= v_high - v_low)

C3_BracketNeverWidens == []BracketOrdered /\ [][BracketStep]_vars

\* bisection has moved both ends: v_high to a penetration, then v_low to a
\* non-penetration
C3_Witness ==
    /\ pc = "bisecting" /\ bisection_iter >= 2
    /\ trials[Len(trials)].out = "NotPenetrated"
    /\ v_low = trials[Len(trials)].v
    /\ trials[Len(trials) - 1].out = "Penetrated"
    /\ v_high = trials[Len(trials) - 1].v

\* C4: the result list holds one row per configuration processed, in request
\* order, and one per requested configuration once the loop is over
C4_OneRecordPerConfig ==
    /\ Len(results_list) = i
    /\ \A k \in 1..Len(results_list) :
          /\ results_list[k].config_index = k
          /\ results_list[k].t1 = THICKNESS_CONFIGS[k][1]
    /\ pc = "main_done" => Len(results_list) = NumConfigs

\* the first solve raised, the second one was solved all the same
C4_Witness ==
    /\ pc = "main_done"
    /\ results_list[1].status = "critical_failure"
    /\ results_list[2].status = "success"

\* C5: every failed record a solve returns carries reason, v_low, v_high, runs
\* and points_used
C5_FailedRecordComplete ==
    (pc = "returned" /\ result.status = "failed")
        => FailedFields \subseteq DOMAIN result

\* C6 as claimed: the status of every row is 'success' or 'failed'
C6_StatusSuccessOrFailed ==
    \A k \in 1..Len(results_list) : results_list[k].status \in {"success", "failed"}

\* C6 as amended: the status of every row is 'success', 'failed' or
\* 'critical_failure'; a solve that returns gives 'success' or 'failed', a solve
\* that raises gives 'critical_failure'
RowStatusStep ==
    /\ (pc = "returned" /\ pc' = "main")
          => results_list'[Len(results_list')].status \in {"success", "failed"}
    /\ (pc = "raised" /\ pc' = "main")
          => results_list'[Len(results_list')].status = "critical_failure"

C6_StatusOfEveryRow ==
    /\ [](\A k \in 1..Len(results_list) :
             results_list[k].status \in {"success", "failed", "critical_failure"})
    /\ [][RowStatusStep]_vars

C6_Witness ==
    /\ Len(results_list) = 2
    /\ results_list[1].status = "critical_failure"
    /\ results_list[2].status = "failed"

\* C7: once the fit is attempted, a failure of the optimizer (RuntimeError or
\* any other exception) ends the solve with a returned failed record holding a
\* reason and the search's v_low, v_high, runs and points; nothing is raised
C7_FitFailureIsReturned ==
    fit_outcome \in {"RuntimeError", "Exception"}
        => /\ pc = "returned"
           /\ result.status = "failed"
           /\ FailedFields \subseteq DOMAIN result
           /\ result.v_low = v_low /\ result.v_high = v_high
           /\ result.runs = run_count
           /\ result.points_used = penetration_points

C7_Witness ==
    /\ fit_outcome = "Exception" /\ pc = "returned"
    /\ result.reason = "str(e)"

\* C8: fewer than MIN_DATAPOINTS_FOR_FIT points after the filter: no fit is
\* attempted, the record is failed with the given reason and the final bracket;
\* a success record has at least MIN_DATAPOINTS_FOR_FIT fitted points
InsufficientData(reason) ==
    /\ (pc = "returned" /\ v_high # INF
          /\ Len(FilterValid(penetration_points)) < MIN_DATAPOINTS_FOR_FIT)
        => /\ fit_outcome = "none"
           /\ result.status = "failed"
           /\ result.reason = reason
           /\ result.v_low = v_low /\ result.v_high = v_high
    /\ (pc = "returned" /\ result.status = "success")
        => Len(FilterValid(result.points_used)) >= MIN_DATAPOINTS_FOR_FIT

\* C8 as claimed: the reason is 'insufficient_data'
C8_InsufficientDataClaimed == InsufficientData("insufficient_data")

\* C8 as amended: the reason is 'Not enough data points for fitting'
C8_InsufficientData == InsufficientData("Not enough data points for fitting")

\* one point short of the minimum, after a search that found a bracket
C8_Witness ==
    /\ pc = "returned" /\ v_high # INF
    /\ Len(FilterValid(penetration_points)) = MIN_DATAPOINTS_FOR_FIT - 1
    /\ result.reason = "Not enough data points for fitting"

\* C9: while every trial returns NotPenetrated the solve stays in expansion,
\* attempts no fit, and returns after exactly MAX_TOTAL_RUNS experiments a
\* failed record whose reason says no penetration was found
C9_NoPenetrationFound ==
    (pc \in SolvePcs /\ AllTrials("NotPenetrated"))
        => /\ pc \in {"expanding", "returned"}
           /\ fit_outcome = "none"
           /\ pc = "returned"
                => /\ Len(trials) = MAX_TOTAL_RUNS
                   /\ run_count = MAX_TOTAL_RUNS
                   /\ result = [status |-> "failed", reason |-> NoPenetrationReason,
                                runs |-> MAX_TOTAL_RUNS]

C9_Witness ==
    /\ pc = "returned" /\ Len(trials) = MAX_TOTAL_RUNS
    /\ AllTrials("NotPenetrated")

\* C10: when every experiment fails the solve ends failed, with a reason
\* saying no penetration was found, after `runs` experiments
AllFailed(runs) ==
    /\ (pc = "returned" /\ Len(trials) > 0 /\ AllTrials("ExperimentFailed"))
        => /\ result.status = "failed"
           /\ result.reason = NoPenetrationReason
           /\ result.runs = runs
           /\ Len(trials) = runs
    /\ (pc \in SolvePcs /\ Len(trials) >= runs /\ AllTrials("ExperimentFailed"))
        => pc = "returned"

\* C10 as claimed: runs equals MAX_TOTAL_RUNS
C10_AllFailedClaimed == AllFailed(MAX_TOTAL_RUNS)

\* C10 as amended: the first failure is retried once, the second ends the
\* search, so runs equals min(2, MAX_TOTAL_RUNS)
C10_AllFailed == AllFailed(Min(2, MAX_TOTAL_RUNS))

C10_Witness ==
    /\ pc = "returned" /\ Len(trials) = 2
    /\ AllTrials("ExperimentFailed")
    /\ result.runs = 2

\* C11: within one solve no velocity is submitted to the Observation Source
\* twice, over expansion, sampling and bisection together, whatever the
\* outcomes: the history of experiments holds every velocity once
C11_NoVelocityTwice ==
    \A j, k \in 1..Len(trials) : j # k => trials[j].v # trials[k].v

\* the phase a step enters or stays in, and where it may come from
PhaseOrder ==
    /\ pc' = "expanding" => pc \in {"main", "expanding"}
    /\ pc' = "sampling" =>
          \/ pc = "sampling"
          \/ pc = "expanding" /\ ~SeenPenetration /\ Issued /\ LastOut = "Penetrated"
    /\ pc' = "bisecting" => pc \in {"sampling", "bisecting"}
    /\ pc' = "fitting" => pc \in {"bisecting", "fitting"}
    /\ pc' = "returned" => pc \in {"expanding", "fitting", "returned"}
    /\ (pc = "sampling" /\ pc' # "sampling") => pc' \in {"bisecting", "raised"}

\* C12: the phases of a solve follow one another only as Expanding, Sampling,
\* Bisecting, Done: Sampling is entered only from Expanding, by the step that
\* issues the first penetrating experiment, and never again; Sampling is left
\* only for Bisecting (or by an exception), whatever the number of samples;
\* after Bisecting has started no step goes back to Expanding or Sampling;
\* and no experiment is issued once the solve is fitting or has returned
C12_PhaseOrder ==
    [][/\ PhaseOrder
       /\ Issued => pc \in {"expanding", "sampling", "bisecting"}
       /\ pc \in {"fitting", "returned"} => trials' = trials \/ pc' = "main"]_vars

\* a solve has gone through the four phases and issued experiments in each
C12_Witness ==
    /\ pc = "returned" /\ bisection_iter > 0
    /\ samples_collected > 0 /\ Len(trials) > bisection_iter + 2

\* the velocities at which an experiment of the current solve returned `out`
VelocitiesOf(out) == {trials[k].v : k \in {j \in 1..Len(trials) : trials[j].out = out}}

\* C13: every point of penetration_points comes from a penetrating experiment
\* and has a residual velocity vr with 0 < vr <= VR_FILTER_THRESHOLD, so the
\* filter applied before the fit removes no point, and filtering twice is the
\* same as filtering once
C13_PointsAreValid ==
    /\ \A k \in 1..Len(penetration_points) :
          /\ penetration_points[k][1] \in VelocitiesOf("Penetrated")
          /\ 0 < penetration_points[k][2]
          /\ penetration_points[k][2] <= VR_FILTER_THRESHOLD
    /\ FilterValid(penetration_points) = penetration_points
    /\ FilterValid(FilterValid(penetration_points)) = FilterValid(penetration_points)

\* points were kept while penetrations with vr = 0 or vr over the threshold
\* were dropped
C13_Witness ==
    /\ pc = "fitting" /\ Len(penetration_points) >= 2
    /\ Cardinality(VelocitiesOf("Penetrated")) > Len(penetration_points)

\* C14: the points handed to the Fitter hold every impact velocity at most
\* once, whatever the outcomes, also when the Observation Source reports
\* different residual velocities for the same impact velocity
C14_OnePointPerVelocity ==
    fit_outcome # "none" =>
        \A j, k \in 1..Len(penetration_points) :
            j # k => penetration_points[j][1] # penetration_points[k][1]

\* the midpoints of the bisection trials of the current solve that failed: the
\* bisection trials are the last bisection_iter entries of the history
FailedMidpoints ==
    {trials[k].v : k \in {j \in (Len(trials) - bisection_iter + 1)..Len(trials) :
                              trials[j].out = "ExperimentFailed"}}

\* C15 as claimed: after the first penetration v_high is a velocity at which
\* an experiment returned Penetrated, and v_low is 0 or a velocity at which an
\* experiment returned NotPenetrated, also when bisection trials fail
C15_BracketEndsClaimed ==
    (pc \in SolvePcs /\ SeenPenetration) =>
        /\ v_high \in VelocitiesOf("Penetrated")
        /\ v_low = 0 \/ v_low \in VelocitiesOf("NotPenetrated")

\* C15: after the first penetration v_high is a velocity at which an
\* experiment returned Penetrated, and v_low is 0, or a velocity at which an
\* experiment returned NotPenetrated, or the midpoint of a bisection trial
\* that returned ExperimentFailed
C15_BracketEnds ==
    (pc \in SolvePcs /\ SeenPenetration) =>
        /\ v_high \in VelocitiesOf("Penetrated")
        /\ \/ v_low = 0
           \/ v_low \in VelocitiesOf("NotPenetrated")
           \/ v_low \in FailedMidpoints

\* bisection went on after a failed trial had raised v_low to its midpoint
C15_Witness ==
    /\ pc = "fitting" /\ bisection_iter >= 2
    /\ v_low \in FailedMidpoints /\ v_low \notin VelocitiesOf("NotPenetrated")

\* C16: when the fit is attempted, the upper bound of VBL handed to the
\* optimizer is the smaller of the static upper bound and 0.99 times the
\* smallest impact velocity of the fitting points, and so it is never greater
\* than that smallest impact velocity (vbl_upper_bound is in 1/100 tick)
C16_VblUpperBound ==
    fit_outcome # "none" =>
        LET smallest == MinVi(penetration_points)
            static == FitVblUpper * Scale * 100
        IN /\ smallest > 0
           /\ vbl_upper_bound = IF static <= 99 * smallest THEN static
                                 ELSE 99 * smallest
           /\ vbl_upper_bound <= 100 * smallest

\* a fit whose bound came from the data, below the static bound
C16_Witness ==
    /\ fit_outcome # "none" /\ Len(penetration_points) >= MIN_DATAPOINTS_FOR_FIT
    /\ vbl_upper_bound = 99 * MinVi(penetration_points)
    /\ vbl_upper_bound < FitVblUpper * Scale * 100

\* the bracket bisection starts from: the first penetrating velocity of the
\* solve, and the last velocity found not penetrating before it (0 if none)
FirstPenetration ==
    CHOOSE k \in 1..Len(trials) :
        /\ trials[k].out = "Penetrated"
        /\ \A j \in 1..(k - 1) : trials[j].out # "Penetrated"
StartHigh == trials[FirstPenetration].v
StartLow ==
    LET below == {j \in 1..(FirstPenetration - 1) : trials[j].out = "NotPenetrated"}
    IN IF below = {} THEN 0
       ELSE trials[CHOOSE j \in below : \A l \in below : l <= j].v
InitialWidth == StartHigh - StartLow

\* ceil(log2(W / T)) for W > T, and 0 for W <= T
RECURSIVE CeilLog2Ratio(_, _)
CeilLog2Ratio(W, T) == IF W <= T THEN 0 ELSE 1 + CeilLog2Ratio(W, 2 * T)

\* floor(log2(W / T)) + 1 for W >= T, and 0 for W < T: the number of halvings
\* of W that it takes to get below T
RECURSIVE HalvingsBelow(_, _)
HalvingsBelow(W, T) == IF W < T THEN 0 ELSE 1 + HalvingsBelow(W, 2 * T)

\* bisection has started and none of its trials failed
BisectingUnfailed ==
    /\ pc \in {"bisecting", "fitting", "returned"} /\ SeenPenetration
    /\ FailedMidpoints = {}

\* C17 as claimed: absent failures the number of bisection trials from a
\* bracket of width W is at most ceil(log2(W / CONVERGENCE_TOLERANCE)), also
\* when W / CONVERGENCE_TOLERANCE is an exact power of two
C17_TrialsClaimed ==
    BisectingUnfailed =>
        bisection_iter <= CeilLog2Ratio(InitialWidth, CONVERGENCE_TOLERANCE * Scale)

\* C17: absent failures the number of bisection trials from a bracket of
\* width W is at most floor(log2(W / CONVERGENCE_TOLERANCE)) + 1 when
\* W >= CONVERGENCE_TOLERANCE, and 0 when W < CONVERGENCE_TOLERANCE
C17_Trials ==
    BisectingUnfailed =>
        bisection_iter <= HalvingsBelow(InitialWidth, CONVERGENCE_TOLERANCE * Scale)

\* a bracket whose width is the tolerance times a power of two took one trial
\* more than the logarithm
C17_Witness ==
    /\ BisectingUnfailed /\ pc = "fitting" /\ Converged
    /\ bisection_iter = HalvingsBelow(InitialWidth, CONVERGENCE_TOLERANCE * Scale)
    /\ bisection_iter > CeilLog2Ratio(InitialWidth, CONVERGENCE_TOLERANCE * Scale)

\* C18: a solve never issues more than MAX_BISECTION_ITERATIONS bisection
\* trials, every issued trial counting (failed ones too), and it issues no
\* bisection trial while v_high - v_low < CONVERGENCE_TOLERANCE
C18_BisectionCap ==
    [][/\ bisection_iter' <= MAX_BISECTION_ITERATIONS
       /\ (pc = "bisecting" /\ Issued) =>
             /\ bisection_iter' = bisection_iter + 1
             /\ v_high - v_low >= CONVERGENCE_TOLERANCE * Scale]_vars

\* the iteration cap ended a bisection that had runs left and a bracket still
\* wider than the tolerance, one of its trials having failed
C18_Witness ==
    /\ pc = "fitting" /\ bisection_iter = MAX_BISECTION_ITERATIONS
    /\ run_count < MAX_TOTAL_RUNS /\ ~Converged
    /\ FailedMidpoints # {}

\* the verdicts of the experiments of the current solve, in order
Verdicts == [k \in 1..Len(trials) |-> trials[k].out]

\* expansion has just ended after three NotPenetrated and one Penetrated, from
\* 300 m/s with growth by 1.5 and a source whose residual velocity is 50 m/s
ScenarioA ==
    /\ INITIAL_VELOCITY = 300 /\ GROWTH_FACTOR = <<3, 2>> /\ source.vrs = {50}
    /\ pc = "sampling"
    /\ Verdicts = <<"NotPenetrated", "NotPenetrated", "NotPenetrated", "Penetrated">>

\* C19: from 300 m/s with growth by 1.5, when the first three experiments do
\* not penetrate and the fourth penetrates with a residual velocity of 50, the
\* experiments were issued at 300, 450, 675 and 1012.5 m/s, and on leaving
\* expansion v_low = 675, v_high = 1012.5 and the one recorded point is
\* (1012.5, 50)
C19_ScenarioA ==
    ScenarioA =>
        /\ [k \in 1..Len(trials) |-> trials[k].v] =
              <<300 * Scale, 450 * Scale, 675 * Scale, (2025 * Scale) \div 2>>
        /\ v_low = 675 * Scale
        /\ v_high = (2025 * Scale) \div 2
        /\ penetration_points = <<<<(2025 * Scale) \div 2, 50>>>>

\* the scenario happens
C19_Witness == ScenarioA /\ run_count = 4 /\ Len(penetration_points) = 1

\* bisection started from the bracket [900, 1000], none of its trials failed,
\* and both ceilings leave room for more than five trials
ScenarioC ==
    /\ BisectingUnfailed
    /\ StartLow = 900 * Scale /\ StartHigh = 1000 * Scale
    /\ MAX_BISECTION_ITERATIONS > 5
    /\ (run_count - bisection_iter) + 5 < MAX_TOTAL_RUNS

\* C20: bisection from the bracket [900, 1000] with CONVERGENCE_TOLERANCE = 5,
\* without failures and with ceilings that do not bind, issues exactly five
\* trials whatever their verdicts: it goes on while fewer than five are
\* issued, and it is over with exactly five
C20_ScenarioC ==
    ScenarioC =>
        /\ CONVERGENCE_TOLERANCE = 5
        /\ pc = "bisecting" =>
              /\ bisection_iter <= 5
              /\ bisection_iter < 5 => (BisectionLoopCond /\ ~Converged)
              /\ bisection_iter = 5 => Converged
        /\ pc \in {"fitting", "returned"} => bisection_iter = 5

\* the five trials are over, with verdicts of both kinds among them
C20_Witness ==
    /\ ScenarioC /\ pc = "fitting" /\ bisection_iter = 5
    /\ v_low > 900 * Scale /\ v_high < 1000 * Scale

\* C21: for a > 0, p > 0 and VBL > 0 the value of lambert_jonas_func is 0 at
\* every Vi <= VBL (clamped, not an error and not NaN) and grows strictly
\* with Vi above VBL
C21_LambertJonas ==
    (pc = "lambert_jonas" /\ lj.out # None) =>
        /\ \A k \in 1..2 : lj.Vi[k] <= lj.VBL => lj.out[k] = 0
        /\ \A j, k \in 1..2 :
              (lj.VBL <= lj.Vi[j] /\ lj.Vi[j] < lj.Vi[k]) => lj.out[j] < lj.out[k]

\* a call with one velocity below VBL and two ordered values at and above it
C21_Witness ==
    /\ pc = "lambert_jonas" /\ lj.out # None /\ lj.p > 1
    /\ lj.Vi[1] < lj.VBL /\ lj.VBL < lj.Vi[2] /\ lj.out[2] > 0

\* C22: when the downward sampling candidate is rejected for being at or
\* below v_low, the candidate considered next is the upward one
C22_RejectedDownGoesUp ==
    [][(pc = "sampling" /\ SamplingLoopCond /\ DownRejected) =>
          (pc' = "sampling" /\ direction' = "up")]_vars

\* C23: no sampling experiment is issued at a velocity at or below v_low,
\* whatever the outcomes and however many downward steps were taken
C23_NoSampleBelowFloor ==
    [][(pc = "sampling" /\ Issued) => trials'[Len(trials')].v > v_low]_vars

\* downward samples were issued until the next one would be at or below v_low
C23_Witness ==
    /\ pc = "sampling" /\ SamplingLoopCond /\ DownRejected
    /\ \E k \in (FirstPenetration + 1)..Len(trials) :
          trials[k].v < v_high /\ trials[k].v - sample_step <= v_low

\* the valid points that sampling added to the first penetration's own point
\* (sampling never tests v_high itself)
AdditionalPoints ==
    Cardinality({k \in 1..Len(penetration_points) : penetration_points[k][1] # v_high})

\* C24: unless the run ceiling is hit, sampling ends only when
\* EXTRA_PENETRATION_SAMPLES valid points have been recorded in addition to
\* the point of the first penetration, whether or not that point is valid
C24_AdditionalSamples ==
    (pc = "bisecting" /\ bisection_iter = 0 /\ run_count < MAX_TOTAL_RUNS) =>
        AdditionalPoints >= EXTRA_PENETRATION_SAMPLES

\* the experiments of the current solve with a verdict (Penetrated or
\* NotPenetrated) at a velocity strictly inside the bracket
InsideBracket ==
    {k \in 1..Len(trials) :
        /\ trials[k].out \in {"Penetrated", "NotPenetrated"}
        /\ v_low < trials[k].v /\ trials[k].v < v_high}

\* the sampling experiments: after the first penetration, before bisection
SamplingTrials == (FirstPenetration + 1)..(Len(trials) - bisection_iter)

C26_FailedBisection ==
    [][(pc = "bisecting" /\ Issued /\ LastOut = "ExperimentFailed") =>
          /\ penetration_points' = penetration_points
          /\ v_low' = trials'[Len(trials')].v
          /\ 2 * v_low' = v_low + v_high
          /\ v_high' = v_high
          /\ v_low < v_low' /\ v_low' < v_high'
          /\ pc' = "bisecting"]_vars

\* bisection goes on after a failed trial has raised v_low
C26_Witness ==
    /\ pc = "bisecting" /\ BisectionLoopCond /\ ~Converged
    /\ v_low \in FailedMidpoints

\* C27: in expansion a failed first experiment of the solve leaves v_low and
\* v_high as they are, moves the candidate on by the linear step (also when a
\* growth factor is configured) and stays in expansion; a failed later
\* experiment ends the search at once with v_high still infinite: the solve
\* returns a failed record with the no-penetration reason, whatever runs are
\* left, and issues no experiment after that
C27_FailedExpansion ==
    [][/\ (pc = "expanding" /\ Issued /\ LastOut = "ExperimentFailed") =>
             IF trials = <<>>
             THEN /\ v_low' = v_low /\ v_high' = v_high
                  /\ current_v' = current_v + EXPONENTIAL_STEP * Scale
                  /\ pc' = "expanding"
             ELSE /\ v_high' = INF
                  /\ pc' = "returned"
                  /\ result'.status = "failed"
                  /\ result'.reason = NoPenetrationReason
       /\ (pc = "returned" /\ v_high = INF) => ~Issued]_vars

\* under a growth factor the failed first experiment was retried one linear
\* step further, and the failure of the retry ended the solve with runs left
C27_Witness ==
    /\ pc = "returned" /\ multiplier # None /\ Len(trials) = 2
    /\ AllTrials("ExperimentFailed")
    /\ trials[2].v = trials[1].v + EXPONENTIAL_STEP * Scale
    /\ run_count < MAX_TOTAL_RUNS /\ result.reason = NoPenetrationReason

\* C28: an expansion experiment that does not penetrate raises v_low to the
\* tested velocity, leaves v_high infinite and stays in expansion; the next
\* candidate is the tested velocity times GROWTH_FACTOR when that is greater
\* than 1, and the tested velocity plus EXPONENTIAL_STEP otherwise, on every
\* such step, so the candidates grow strictly
C28_NotPenetratedExpansion ==
    [][(pc = "expanding" /\ Issued /\ LastOut = "NotPenetrated") =>
          /\ v_low' = current_v /\ v_high' = INF /\ pc' = "expanding"
          /\ IF GROWTH_FACTOR[1] > GROWTH_FACTOR[2]
             THEN current_v' * GROWTH_FACTOR[2] = current_v * GROWTH_FACTOR[1]
             ELSE current_v' = current_v + EXPONENTIAL_STEP * Scale
          /\ current_v' > current_v]_vars

\* two growth steps in a row, from the first experiment of the solve on
C28_Witness ==
    /\ pc = "expanding" /\ GROWTH_FACTOR = <<3, 2>>
    /\ Len(trials) = 2 /\ AllTrials("NotPenetrated")
    /\ trials[1].v = INITIAL_VELOCITY * Scale
    /\ 2 * trials[2].v = 3 * trials[1].v /\ 2 * current_v = 3 * trials[2].v

\* C29: when the Observation Source penetrates exactly at the velocities
\* v >= T for a fixed T > 0 and no experiment fails, the bracket holds the
\* threshold at every state after the first penetration, through sampling
\* and every bisection step: v_low < T <= v_high
C29_BracketHoldsThreshold ==
    (source.threshold > 0 /\ pc \in SolvePcs /\ SeenPenetration) =>
        /\ v_low < source.threshold * Scale
        /\ source.threshold * Scale <= v_high

\* bisection has moved both ends of the bracket towards the threshold
C29_Witness ==
    /\ source.threshold > 0 /\ pc = "fitting" /\ bisection_iter >= 2
    /\ v_low > StartLow /\ v_high < StartHigh

\* the two sampling candidates are v_high minus and v_high plus a positive
\* whole multiple of an increment, given as five times the increment
CandidatesOnGrid(inc5) ==
    /\ down_v < v_high /\ (5 * (v_high - down_v)) % inc5 = 0
    /\ up_v > v_high /\ (5 * (up_v - v_high)) % inc5 = 0

\* C30 as claimed: every sampling candidate is v_high plus or minus a
\* positive whole multiple of EXPONENTIAL_STEP / 5, for every positive step,
\* steps below 5 included
C30_IncrementClaimed ==
    pc = "sampling" => CandidatesOnGrid(EXPONENTIAL_STEP * Scale)

\* C30: every sampling candidate is v_high plus or minus a positive whole
\* multiple of the sampling increment, which is the larger of 1 m/s and
\* EXPONENTIAL_STEP / 5
C30_Increment ==
    pc = "sampling" =>
        CandidatesOnGrid(IF EXPONENTIAL_STEP < 5 THEN 5 * Scale
                         ELSE EXPONENTIAL_STEP * Scale)

\* with a step below 5 both candidates have moved on by whole metres per second
C30_Witness ==
    /\ pc = "sampling" /\ EXPONENTIAL_STEP < 5
    /\ v_high - down_v = 2 * Scale /\ up_v - v_high = 2 * Scale

\* ------------------------------------------------------ the log handler
\* the solve's handler is off the logger and its file is closed
HandlerRemoved == (i + 1) \notin logger_handlers /\ file_handler = "closed"

\* C31: on every exit path of find_v50_for_config that returns a record (the
\* no-penetration return, the insufficient-data return, fit success and both
\* fit-failure returns) the solve's log file handler is detached from the
\* logger and closed
C31_HandlerRemoved == pc = "returned" => HandlerRemoved

\* the returns of the fit do remove the handler
C31_FitRemovesHandler ==
    (pc = "returned" /\ fit_outcome # "none") => HandlerRemoved

\* ------------------------------------------- the runner behind a trial
\* C32: whenever the LS-DYNA run behind a trial fails (not found, timeout,
\* non-zero exit code, incomplete output, an exception in the runner), the
\* trial is handled as ExperimentFailed and the solve goes on in the failure
\* branch of its phase
C32_FailedRunIsExperimentFailed ==
    [][(Issued /\ source.lsdyna \notin {"none", "ok"})
          => (LastOut = "ExperimentFailed" /\ pc' # "raised")]_vars

====
